---- MODULE Spec2Model ----
(***************************************************************************)
(* DopleTracker: micro-Doppler drone/bird classification.                  *)
(*                                                                         *)
(* The module models                                                       *)
(*   - utils.py    validate_csv, process_signal                            *)
(*   - model.py    initialize_model, extract_features, predict_class       *)
(*   - database.py save_classification_result, the two query functions     *)
(*                 and clear_classification_history                        *)
(*   - app.py      the upload and the sample-data script runs              *)
(*                                                                         *)
(* Floating point numbers are fixed-point integers in units of 1/Scale,    *)
(* paired with a NaN flag: [nan |-> BOOLEAN, v |-> Int].                   *)
(***************************************************************************)
EXTENDS Integers, Sequences, FiniteSets, TLC

\* ------------------------------------------------------------------ bounds
\* Largest number of columns of an input table.
MaxCols == 4
\* Largest number of records the history store holds in the model.
MaxHistory == 1
\* Largest number of samples of a test waveform.
MaxWaveCols == 8
\* Largest number of records in the store of the database specification.
MaxRecords == 2

\* ------------------------------------------------------------- arithmetic
\* Resolution of the fixed-point numbers that stand for float64 values.
Scale == 100
\* Resolution of the twiddle-factor table of the DFT.
TrigScale == 1000

Abs(x) == IF x < 0 THEN -x ELSE x

\* Division rounding toward zero.
Quot(a, b) == IF a >= 0 THEN a \div b ELSE -((-a) \div b)

RECURSIVE SqrtSearch(_, _, _)
SqrtSearch(x, lo, hi) ==
  IF lo >= hi THEN lo
  ELSE LET mid == (lo + hi + 1) \div 2
       IN IF mid * mid <= x THEN SqrtSearch(x, mid, hi)
          ELSE SqrtSearch(x, lo, mid - 1)

\* Integer square root (np.sqrt on the fixed-point grid).
ISqrt(x) == SqrtSearch(x, 0, IF x < 46340 THEN x ELSE 46340)

NaN == [nan |-> TRUE, v |-> 0]
Num(x) == [nan |-> FALSE, v |-> x]
IsNaN(f) == f.nan

RECURSIVE SumSeq(_)
SumSeq(s) == IF s = <<>> THEN 0 ELSE Head(s) + SumSeq(Tail(s))

RECURSIVE MaxSeq(_)
MaxSeq(s) == IF Len(s) = 1 THEN s[1]
             ELSE LET m == MaxSeq(Tail(s)) IN IF s[1] >= m THEN s[1] ELSE m

\* ------------------------------------------------------------ CSV content
\* A cell is the text of a CSV field, a sequence of characters.
Cells == { <<"0">>, <<"1">>, <<"-", "2">>, <<"x">> }

DigitValue(c) ==
  CASE c = "0" -> 0 [] c = "1" -> 1 [] c = "2" -> 2 [] c = "3" -> 3
    [] c = "4" -> 4 [] c = "5" -> 5 [] c = "6" -> 6 [] c = "7" -> 7
    [] c = "8" -> 8 [] c = "9" -> 9 [] OTHER -> -1

IsDigits(s) == Len(s) > 0 /\ \A i \in 1..Len(s) : DigitValue(s[i]) >= 0

RECURSIVE DigitsValue(_)
DigitsValue(s) ==
  IF s = <<>> THEN 0
  ELSE 10 * DigitsValue(SubSeq(s, 1, Len(s) - 1)) + DigitValue(s[Len(s)])

\* pd.to_numeric(errors='coerce') on one cell: the number, or NaN when the
\* text does not parse.
to_numeric(cell) ==
  IF IsDigits(cell) THEN Num(Scale * DigitsValue(cell))
  ELSE IF Len(cell) > 1 /\ cell[1] = "-" /\ IsDigits(Tail(cell))
       THEN Num(-(Scale * DigitsValue(Tail(cell))))
       ELSE NaN

\* df.apply(pd.to_numeric, errors='coerce')
Coerce(df) == [r \in 1..Len(df) |-> [c \in 1..Len(df[r]) |-> to_numeric(df[r][c])]]

\* The least number of rows validate_csv accepts.
MinRows == 5

Rows(c) == [1..c -> Cells]

\* The rows below the first: all numeric, all text, or text in the first
\* half of the columns.
OtherRows(c) ==
  { [i \in 1..c |-> <<"1">>],
    [i \in 1..c |-> <<"x">>],
    [i \in 1..c |-> IF 2 * i <= c + 1 THEN <<"x">> ELSE <<"1">>] }

\* A table of k rows: a first row and k-1 copies of another row.
MkTable(first, other, k) == [r \in 1..k |-> IF r = 1 THEN first ELSE other]

Tables ==
  { <<>> } \cup
  UNION { { MkTable(f, o, k) : f \in Rows(c), o \in OtherRows(c),
                               k \in {MinRows - 1, MinRows} } : c \in 1..MaxCols }

NRows(df) == Len(df)
NCols(df) == IF Len(df) = 0 THEN 0 ELSE Len(df[1])
\* df.size
Size(df) == NRows(df) * NCols(df)

\* df.isna().sum().sum()
NaNCount(ndf) ==
  Cardinality({ rc \in (1..NRows(ndf)) \X (1..NCols(ndf)) : IsNaN(ndf[rc[1]][rc[2]]) })

\* ------------------------------------------------------------ file object
\* An uploaded file: its rows and the read position (rows already consumed).
File(name, content) == [name |-> name, content |-> content, pos |-> 0]

seek0(f) == [f EXCEPT !.pos = 0]

\* pd.read_csv(file_obj, header=None): parses from the read position to the
\* end and leaves the position at the end; nothing left to parse raises
\* EmptyDataError.
read_csv(f) ==
  LET rest == SubSeq(f.content, f.pos + 1, Len(f.content))
  IN [ok   |-> rest # <<>>,
      err  |-> IF rest # <<>> THEN "" ELSE "EmptyDataError",
      df   |-> rest,
      file |-> [f EXCEPT !.pos = Len(f.content)]]

\* --------------------------------------------------------------- utils.py
\* The threshold with >= in place of >: exactly half is rejected too.
TooManyNaN_AtLeastHalf(ndf) == 2 * NaNCount(ndf) >= Size(ndf)

\* df.isna().sum().sum() > 0.5 * df.size
TooManyNaN(ndf) == 2 * NaNCount(ndf) > Size(ndf)

validate_csv(file_obj) ==
  LET rd == read_csv(seek0(file_obj))
  IN IF ~rd.ok
       THEN [is_valid |-> FALSE, error_msg |-> "The file is empty.", file |-> rd.file]
     ELSE LET f2 == seek0(rd.file)
          IN IF NRows(rd.df) = 0 \/ NCols(rd.df) = 0
               THEN [is_valid |-> FALSE, error_msg |-> "The file is empty.", file |-> f2]
             ELSE IF NRows(rd.df) < MinRows
               THEN [is_valid |-> FALSE,
                     error_msg |-> "The file contains too few data points (minimum 5 required).",
                     file |-> f2]
             ELSE IF TooManyNaN(Coerce(rd.df))
               THEN [is_valid |-> FALSE,
                     error_msg |-> "Too many non-numeric values in the file.",
                     file |-> f2]
             ELSE [is_valid |-> TRUE, error_msg |-> "", file |-> f2]

Finite(s) == { i \in 1..Len(s) : ~IsNaN(s[i]) }

\* np.nanmax / np.nanmin: NaN only when every element is NaN.
nanmax(s) ==
  IF Finite(s) = {} THEN NaN
  ELSE Num(CHOOSE m \in { s[i].v : i \in Finite(s) } :
             \A i \in Finite(s) : s[i].v <= m)

nanmin(s) ==
  IF Finite(s) = {} THEN NaN
  ELSE Num(CHOOSE m \in { s[i].v : i \in Finite(s) } :
             \A i \in Finite(s) : s[i].v >= m)

\* The division applied to the distance from the smallest value, which
\* sends a constant row to zeros.
DivideByRange(s, d) ==
  [i \in 1..Len(s) |-> IF IsNaN(s[i]) THEN NaN ELSE Num(Quot((s[i].v - nanmin(s).v) * Scale, d))]

\* amplitude / max_amp, elementwise; NaN stays NaN.
DivideBy(s, d) ==
  [i \in 1..Len(s) |-> IF IsNaN(s[i]) THEN NaN ELSE Num(Quot(s[i].v * Scale, d))]

\* process_signal taking the last row of the table as the amplitude.
process_signal_last_row(df) ==
  LET ndf       == Coerce(df)
      time      == [i \in 1..NCols(ndf) |-> i - 1]
      amplitude == ndf[Len(ndf)]
      hi        == nanmax(amplitude)
      lo        == nanmin(amplitude)
      max_amp   == IF IsNaN(hi) \/ IsNaN(lo) THEN NaN
                   ELSE Num(IF Abs(hi.v) >= Abs(lo.v) THEN Abs(hi.v) ELSE Abs(lo.v))
  IN [time      |-> time,
      amplitude |-> IF ~IsNaN(max_amp) /\ max_amp.v > 0
                      THEN DivideBy(amplitude, max_amp.v)
                      ELSE amplitude]

\* process_signal: the time axis 0..C-1 and the first row, coerced and
\* divided by its peak when the peak is positive.
process_signal(df) ==
  LET ndf       == Coerce(df)
      time      == [i \in 1..NCols(ndf) |-> i - 1]
      amplitude == ndf[1]
      hi        == nanmax(amplitude)
      lo        == nanmin(amplitude)
      \* max(abs(nan), abs(nan)) is nan, and nan > 0 is False
      max_amp   == IF IsNaN(hi) \/ IsNaN(lo) THEN NaN
                   ELSE Num(IF Abs(hi.v) >= Abs(lo.v) THEN Abs(hi.v) ELSE Abs(lo.v))
  IN [time      |-> time,
      amplitude |-> IF ~IsNaN(max_amp) /\ max_amp.v > 0
                      THEN DivideBy(amplitude, max_amp.v)
                      ELSE amplitude]

\* --------------------------------------------------------------- model.py
\* RandomForestClassifier(n_estimators=100, random_state=42)
n_estimators == 100

NFeatures == 7

\* X_train, in units of 1/Scale: five drone rows, then five bird rows.
X_train ==
  << <<80, 520, 12000, 90, 70, 15000, 80>>,
     <<70, 480, 11500, 85, 75, 14500, 75>>,
     <<75, 500, 12500, 88, 72, 15500, 78>>,
     <<82, 530, 11800, 92, 68, 15200, 81>>,
     <<79, 510, 12200, 89, 71, 14800, 79>>,
     <<30, 250, 6000, 40, 35, 8000, 30>>,
     <<25, 230, 6500, 45, 38, 7500, 28>>,
     <<28, 240, 6300, 42, 36, 7800, 29>>,
     <<31, 260, 6200, 41, 37, 8200, 31>>,
     <<27, 250, 6400, 43, 34, 7900, 30>> >>

y_train ==
  << "drone", "drone", "drone", "drone", "drone",
     "bird", "bird", "bird", "bird", "bird" >>

\* model.classes_: the labels in sorted order.
classes_ == << "bird", "drone" >>

Column(X, f) == [r \in 1..Len(X) |-> X[r][f]]

UnfittedScaler == [fitted |-> FALSE, mean_ |-> <<>>, scale_ |-> <<>>]
UnfittedModel  == [fitted |-> FALSE, trees |-> <<>>, nan_drone |-> <<>>, thr |-> <<>>]

\* StandardScaler.fit: the mean and the population standard deviation of
\* every column; a column of zero variance gets scale 1.
ScalerFit(X) ==
  LET mean(f) == Quot(SumSeq(Column(X, f)), Len(X))
      var(f)  == Quot(SumSeq([r \in 1..Len(X) |-> (X[r][f] - mean(f)) * (X[r][f] - mean(f))]),
                      Len(X))
      sd(f)   == ISqrt(var(f))
  IN [fitted |-> TRUE,
      mean_  |-> [f \in 1..NFeatures |-> mean(f)],
      scale_ |-> [f \in 1..NFeatures |-> IF sd(f) = 0 THEN Scale ELSE sd(f)]]

\* StandardScaler.transform of one value of column f; NaN passes through.
ScaleValue(sc, f, x) ==
  IF IsNaN(x) THEN NaN ELSE Num(Quot((x.v - sc.mean_[f]) * Scale, sc.scale_[f]))

ScalerTransform(sc, features) ==
  [f \in 1..NFeatures |-> ScaleValue(sc, f, features[f])]

\* The trees the seeded fit can grow on this training set.  The two classes
\* are separated on every feature, so every tree is one split on one
\* feature, at the midpoint between the classes.  trees[f] is the number of
\* trees that split on feature f, nan_drone[f] the number of those whose
\* larger child is the drone leaf (where a missing value is sent).
ForestShapes ==
  { [trees     |-> <<15, 14, 14, 15, 14, 14, 14>>,
     nan_drone |-> <<8, 7, 7, 7, 7, 7, 7>>],
    [trees     |-> <<20, 10, 15, 15, 10, 20, 10>>,
     nan_drone |-> <<5, 5, 10, 10, 5, 10, 5>>] }

\* RandomForestClassifier.fit on the scaled training set.
ForestFit(shape, Xs, y) ==
  LET of(label, f) == { Xs[r][f].v : r \in { q \in 1..Len(Xs) : y[q] = label } }
      top(S)    == CHOOSE m \in S : \A e \in S : e <= m
      bottom(S) == CHOOSE m \in S : \A e \in S : e >= m
  IN [fitted    |-> TRUE,
      trees     |-> shape.trees,
      nan_drone |-> shape.nan_drone,
      thr       |-> [f \in 1..NFeatures |->
                       Quot(top(of("bird", f)) + bottom(of("drone", f)), 2)]]

\* np.fft.fft twiddle factors: <<cos, sin>> of 2*pi*j/N in units of
\* 1/TrigScale, for j = 0..N-1.
Twiddle(N) ==
  CASE N = 1 -> << <<1000, 0>> >>
    [] N = 2 -> << <<1000, 0>>, <<-1000, 0>> >>
    [] N = 3 -> << <<1000, 0>>, <<-500, 866>>, <<-500, -866>> >>
    [] N = 4 -> << <<1000, 0>>, <<0, 1000>>, <<-1000, 0>>, <<0, -1000>> >>
    [] N = 5 -> << <<1000, 0>>, <<309, 951>>, <<-809, 588>>, <<-809, -588>>,
                   <<309, -951>> >>
    [] N = 6 -> << <<1000, 0>>, <<500, 866>>, <<-500, 866>>, <<-1000, 0>>,
                   <<-500, -866>>, <<500, -866>> >>
    [] N = 7 -> << <<1000, 0>>, <<623, 782>>, <<-223, 975>>, <<-901, 434>>,
                   <<-901, -434>>, <<-223, -975>>, <<623, -782>> >>
    [] N = 8 -> << <<1000, 0>>, <<707, 707>>, <<0, 1000>>, <<-707, 707>>,
                   <<-1000, 0>>, <<-707, -707>>, <<0, -1000>>, <<707, -707>> >>
    [] N = 9 -> << <<1000, 0>>, <<766, 643>>, <<174, 985>>, <<-500, 866>>,
                   <<-940, 342>>, <<-940, -342>>, <<-500, -866>>, <<174, -985>>,
                   <<766, -643>> >>

\* np.abs(np.fft.fft(amplitude)) of a NaN-free sequence of fixed-point values.
FftAbs(x) ==
  LET N     == Len(x)
      tw    == Twiddle(N)
      re(k) == Quot(SumSeq([n \in 1..N |-> x[n] * tw[(((k - 1) * (n - 1)) % N) + 1][1]]),
                    TrigScale)
      im(k) == Quot(-SumSeq([n \in 1..N |-> x[n] * tw[(((k - 1) * (n - 1)) % N) + 1][2]]),
                    TrigScale)
  IN [k \in 1..N |-> ISqrt(re(k) * re(k) + im(k) * im(k))]

\* np.argmax: the 0-based index of the first maximum.
ArgMax(s) == (CHOOSE i \in 1..Len(s) :
                /\ \A j \in 1..Len(s) : s[j] <= s[i]
                /\ \A j \in 1..(i - 1) : s[j] < s[i]) - 1

\* np.signbit(np.diff(amplitude)); the sign bit of NaN is clear.
SignBits(amp) ==
  [i \in 1..(Len(amp) - 1) |->
     IF IsNaN(amp[i]) \/ IsNaN(amp[i + 1]) THEN FALSE
     ELSE amp[i + 1].v - amp[i].v < 0]

\* The sign changes counted on the amplitude itself, not on its first
\* difference.
ZeroCrossingsOfAmplitude(amp) ==
  Cardinality({ i \in 1..(Len(amp) - 1) : (amp[i].v < 0) # (amp[i + 1].v < 0) })

\* np.sum(np.diff(signbits)): the number of adjacent positions that differ.
ZeroCrossings(amp) ==
  LET sb == SignBits(amp)
  IN Cardinality({ i \in 1..(Len(sb) - 1) : sb[i] # sb[i + 1] })

\* np.mean, np.std (population) and np.max of a NaN-free sequence.
Mean(vals) == Quot(SumSeq(vals), Len(vals))
SquaredDeviations(vals, m) == [i \in 1..Len(vals) |-> (vals[i] - m) * (vals[i] - m)]
Std(vals) == ISqrt(Quot(SumSeq(SquaredDeviations(vals, Mean(vals))), Len(vals)))

\* fft_result[1:len(fft_result)//2]
Band(fft_result) == SubSeq(fft_result, 2, Len(fft_result) \div 2)

\* np.max(fft_result) / np.mean(fft_result); 0/0 is NaN.
PeakToMean(fft_result, total) ==
  IF total = 0 THEN NaN
  ELSE Num(Quot(MaxSeq(fft_result) * Len(fft_result) * Scale, total))

ZeroCrossingRate(amplitude) ==
  Num(Quot(ZeroCrossings(amplitude) * Scale, Len(amplitude)))

\* The feature vector of a NaN-free amplitude.
FiniteFeatures(amplitude, vals, fft_result) ==
  << Num(Mean(vals)),
     Num(Std(vals)),
     Num(Scale * (ArgMax(Band(fft_result)) + 1)),
     PeakToMean(fft_result, SumSeq(fft_result)),
     ZeroCrossingRate(amplitude),
     Num(SumSeq(Band(fft_result))),
     Num(MaxSeq(vals)) >>

\* The feature vector of an amplitude that holds a NaN: every statistic and
\* every spectrum bin is NaN, and argmax of an all-NaN band is 0.
NaNFeatures(amplitude) ==
  << NaN, NaN, Num(Scale * 1), NaN, ZeroCrossingRate(amplitude), NaN, NaN >>

Values(amplitude) == [i \in 1..Len(amplitude) |-> amplitude[i].v]

\* extract_features: [ok, err, features]; features is the 7-vector
\* <<mean, std, dominant frequency, peak-to-mean ratio, zero-crossing
\* rate, spectral energy, max>>.
extract_features(signal_data) ==
  IF Len(signal_data.amplitude) \div 2 <= 1
    \* np.argmax of the empty band fft_result[1:len(fft_result)//2]
    THEN [ok |-> FALSE, err |-> "ValueError", features |-> <<>>]
  ELSE IF \E i \in 1..Len(signal_data.amplitude) : IsNaN(signal_data.amplitude[i])
    THEN [ok |-> TRUE, err |-> "", features |-> NaNFeatures(signal_data.amplitude)]
  ELSE [ok |-> TRUE, err |-> "",
        features |-> FiniteFeatures(signal_data.amplitude,
                                    Values(signal_data.amplitude),
                                    FftAbs(Values(signal_data.amplitude)))]

\* model.predict_proba(features_scaled)[0]: the share of trees voting for
\* each class, in the order of classes_.
predict_proba(m, xs) ==
  LET votes(f) == IF IsNaN(xs[f]) THEN m.nan_drone[f]
                  ELSE IF xs[f].v > m.thr[f] THEN m.trees[f] ELSE 0
      drone == SumSeq([f \in 1..NFeatures |-> votes(f)])
  IN << Num(Quot((n_estimators - drone) * Scale, n_estimators)),
        Num(Quot(drone * Scale, n_estimators)) >>

NoResult == [ok |-> FALSE, err |-> "", label |-> "", confidence |-> NaN]
Failed(e) == [NoResult EXCEPT !.err = e]

\* The label and the confidence of a probability vector.
Decide(probabilities, class_index) ==
  [ok |-> TRUE, err |-> "",
   label |-> classes_[class_index + 1],
   confidence |-> Num(probabilities[class_index + 1].v * 100)]

ProbaValues(probabilities) == [i \in 1..Len(probabilities) |-> probabilities[i].v]

\* The statements of predict_class after the scaling.
PredictScaled(m, nok, features_scaled) ==
  IF ~m.fitted THEN Failed("NotFittedError")
  ELSE IF ~nok /\ \E f \in 1..NFeatures : IsNaN(features_scaled[f])
    THEN Failed("ValueError")
  ELSE Decide(predict_proba(m, features_scaled),
              ArgMax(ProbaValues(predict_proba(m, features_scaled))))

\* The statements of predict_class after the feature extraction.
PredictFeatures(sc, m, nok, extracted) ==
  IF ~extracted.ok THEN Failed(extracted.err)
  ELSE IF ~sc.fitted THEN Failed("NotFittedError")
  ELSE PredictScaled(m, nok, ScalerTransform(sc, extracted.features))

\* predict_class(signal_data) with the module's scaler and model; nok
\* tells whether the installed forest accepts NaN features or raises.
predict_class(sc, m, nok, signal_data) ==
  PredictFeatures(sc, m, nok, extract_features(signal_data))

\* ------------------------------------------------------------ database.py
\* A row of classification_results as save_classification_result builds it.
ClassificationResult(filename, is_sample_data, classification, confidence) ==
  [filename       |-> filename,
   is_sample_data |-> IF is_sample_data THEN 1 ELSE 0,
   classification |-> classification,
   confidence     |-> confidence,
   notes          |-> "None"]

\* What the database does with a commit.
DbOutcomes == { "ok", "OperationalError" }

\* A session of SessionLocal: the rows added and not yet committed,
\* and whether a bulk delete of the table is pending.
SessionLocal(store, open) == [store |-> store, pending |-> <<>>, deleted |-> FALSE, open |-> open + 1]
session_add(s, row) == [s EXCEPT !.pending = Append(@, row)]
\* session.query(ClassificationResult).delete()
session_delete(s) == [s EXCEPT !.deleted = TRUE]
session_commit(s) == [s EXCEPT !.store = (IF s.deleted THEN <<>> ELSE @) \o s.pending, !.pending = <<>>, !.deleted = FALSE]
session_rollback(s) == [s EXCEPT !.pending = <<>>, !.deleted = FALSE]
session_close(s) == [s EXCEPT !.pending = <<>>, !.deleted = FALSE, !.open = @ - 1]

\* save_classification_result with the close on the success path only.
save_without_finally(store, open, filename, is_sample_data, classification, confidence, db) ==
  LET session == SessionLocal(store, open)
      added   == session_add(session, ClassificationResult(filename, is_sample_data,
                                                           classification, confidence))
      done    == IF db = "ok" THEN session_close(session_commit(added))
                 ELSE session_rollback(added)
  IN [ret |-> (db = "ok"), raised |-> FALSE, store |-> done.store, open |-> done.open]

\* save_classification_result: opens a session, adds the row and commits;
\* a failing commit is caught, rolled back and answered with False; the
\* session is closed on both paths.  store is the table, open the number of
\* open sessions, db the outcome of the commit.
save_classification_result(store, open, filename, is_sample_data, classification, confidence, db) ==
  LET session == SessionLocal(store, open)
      added   == session_add(session, ClassificationResult(filename, is_sample_data,
                                                           classification, confidence))
      done    == IF db = "ok" THEN session_close(session_commit(added))
                 ELSE session_close(session_rollback(added))
  IN [ret |-> (db = "ok"), raised |-> FALSE, store |-> done.store, open |-> done.open]

\* The two query functions try at most max_retries times.
max_retries == 3

\* What the database does with a query: it answers, it raises
\* OperationalError, or it raises another exception.
QueryOutcomes == { "ok", "OperationalError", "Exception" }

Reverse(s) == [i \in 1..Len(s) |-> s[Len(s) + 1 - i]]
Take(s, n) == SubSeq(s, 1, IF n < Len(s) THEN n ELSE Len(s))

\* order_by(ClassificationResult.timestamp.desc()).all(): the store keeps
\* the rows in the order of their timestamps, the query answers newest
\* first.
AllRows(store) == Reverse(store)

\* order_by(ClassificationResult.timestamp.desc()).limit(limit).all()
RecentRows(store, limit) == Take(Reverse(store), limit)

\* The state of the for loop of a query function before its first pass:
\* attempt is the loop variable, done tells that a return was executed,
\* sleeps counts the time.sleep(retry_delay) calls, peak is the largest
\* number of sessions open at once.
QueryLoop(open) ==
  [done |-> FALSE, ret |-> <<>>, attempt |-> 0, sleeps |-> 0, open |-> open, peak |-> open]

Larger(a, b) == IF a >= b THEN a ELSE b

\* One pass of the loop with the session closed on the success path only.
query_attempt_without_finally(st, store, rows, outcome) ==
  IF outcome = "ok"
    THEN [st EXCEPT !.done = TRUE, !.ret = rows, !.attempt = @ + 1,
                    !.peak = Larger(@, st.open + 1)]
  ELSE IF outcome = "OperationalError" /\ st.attempt < max_retries - 1
    THEN [st EXCEPT !.attempt = @ + 1, !.sleeps = @ + 1, !.open = @ + 1,
                    !.peak = Larger(@, st.open + 1)]
  ELSE [st EXCEPT !.done = TRUE, !.ret = <<>>, !.attempt = @ + 1, !.open = @ + 1,
                  !.peak = Larger(@, st.open + 1)]

\* One pass of the loop: a session is opened, the query runs, and the
\* finally clause closes the session on every path.  A result is returned;
\* an OperationalError before the last pass sleeps and goes on to the next
\* pass; an OperationalError on the last pass, or any other exception,
\* returns [].
query_attempt(st, store, rows, outcome) ==
  IF outcome = "ok"
    THEN [st EXCEPT !.done = TRUE, !.ret = rows, !.attempt = @ + 1,
                    !.open = session_close(SessionLocal(store, st.open)).open,
                    !.peak = Larger(@, SessionLocal(store, st.open).open)]
  ELSE IF outcome = "OperationalError" /\ st.attempt < max_retries - 1
    THEN [st EXCEPT !.attempt = @ + 1, !.sleeps = @ + 1,
                    !.open = session_close(SessionLocal(store, st.open)).open,
                    !.peak = Larger(@, SessionLocal(store, st.open).open)]
  ELSE [st EXCEPT !.done = TRUE, !.ret = <<>>, !.attempt = @ + 1,
                  !.open = session_close(SessionLocal(store, st.open)).open,
                  !.peak = Larger(@, SessionLocal(store, st.open).open)]

\* for attempt in range(max_retries): the passes run until one returns or
\* the range is used up; outcomes[i] is what the database does on pass i.
RECURSIVE query_loop(_, _, _, _)
query_loop(st, store, rows, outcomes) ==
  IF st.done \/ st.attempt >= max_retries THEN st
  ELSE query_loop(query_attempt(st, store, rows, outcomes[st.attempt + 1]),
                  store, rows, outcomes)

get_all_classification_results(store, open, outcomes) ==
  query_loop(QueryLoop(open), store, AllRows(store), outcomes)

get_recent_classification_results(store, open, limit, outcomes) ==
  query_loop(QueryLoop(open), store, RecentRows(store, limit), outcomes)

\* What the database does with clear_classification_history: it accepts
\* the delete and the commit, or one of the two raises.
ClearOutcomes == { "ok", "DeleteError", "CommitError" }

\* clear_classification_history with a delete that takes effect at once,
\* outside the transaction.
clear_autocommit(store, open, db) ==
  [ret |-> (db = "ok"), raised |-> FALSE,
   store |-> IF db = "DeleteError" THEN store ELSE <<>>, open |-> open]

\* clear_classification_history: deletes every row and commits; a failure
\* is caught, rolled back and answered with False; the session is closed on
\* both paths.
clear_classification_history(store, open, db) ==
  LET session == SessionLocal(store, open)
      done    == IF db = "ok" THEN session_close(session_commit(session_delete(session)))
                 ELSE IF db = "CommitError"
                   THEN session_close(session_rollback(session_delete(session)))
                 ELSE session_close(session_rollback(session))
  IN [ret |-> (db = "ok"), raised |-> FALSE, store |-> done.store, open |-> done.open]

\* ----------------------------------------------------------------- app.py
\* The first rows of the files the user uploads, repeated over the columns.
FirstRowPatterns == { <<<<"1">>, <<"-", "2">>>>, <<<<"0">>>>, <<<<"x">>, <<"1">>>>, <<<<"x">>>> }

PatternRow(p, c) == [i \in 1..c |-> p[((i - 1) % Len(p)) + 1]]

Uploads ==
  { <<>> } \cup
  UNION { { MkTable(PatternRow(p, c), o, k) :
              p \in FirstRowPatterns, o \in OtherRows(c),
              k \in {MinRows - 1, MinRows} } : c \in 1..MaxCols }

\* The contents test_micro_doppler_signals.csv can have.
Samples ==
  { MkTable(PatternRow(p, MaxCols), [i \in 1..MaxCols |-> <<"1">>], k) :
      p \in FirstRowPatterns, k \in {MinRows - 1, MinRows} }

NoFile == [name |-> "", content |-> <<>>, pos |-> 0]
NoSignal == [time |-> <<>>, amplitude |-> <<>>]
NoFeatures == [ok |-> FALSE, err |-> "", features |-> <<>>]
NoVerdict == [is_valid |-> FALSE, error_msg |-> "", file |-> NoFile]

\* What one script run did: its source, what it displayed and what it saved.
NoRun ==
  [kind       |-> "none",
   rows       |-> 0,
   validated  |-> FALSE,
   is_valid   |-> FALSE,
   error      |-> "",
   signals    |-> 0,
   amplitude  |-> <<>>,
   displayed  |-> NoResult,
   recomputed |-> NoResult,
   save_called |-> FALSE,
   save_ret   |-> FALSE,
   save_raised |-> FALSE,
   db         |-> "ok",
   before     |-> <<>>]

\* What one call of a function of database.py was given and what it did.
NoCall ==
  [fn       |-> "none",
   row      |-> <<>>,
   limit    |-> 0,
   outcomes |-> <<>>,
   db       |-> "ok",
   returned |-> FALSE,
   ret      |-> FALSE,
   rows     |-> <<>>,
   attempts |-> 0,
   sleeps   |-> 0,
   peak     |-> 0,
   before   |-> <<>>]

VARIABLES
  scaler,         \* model.py: the module-level StandardScaler
  model,          \* model.py: the module-level RandomForestClassifier
  modPc,          \* how far the import of model.py has run
  nan_ok,         \* whether the installed forest accepts NaN features
  uploaded_file,  \* app.py: the file object of the uploader widget
  sample_data,    \* the rows of the sample file on disk
  pc,             \* app.py: where the script run stands
  run,            \* what the current (or last) script run did
  history,        \* database.py: the rows of classification_results
  open_sessions,  \* database.py: sessions opened and not closed
  step,           \* pipeline: the stage reached
  verdict,        \* pipeline: what validate_csv returned
  signal,         \* pipeline: what process_signal returned
  fx,             \* pipeline: what extract_features returned
  pred,           \* pipeline: what predict_class returned
  call            \* database.py: the last call of a function and its outcome

vars == << scaler, model, modPc, nan_ok, uploaded_file, sample_data, pc, run,
           history, open_sessions, step, verdict, signal, fx, pred, call >>

modelVars == << scaler, model, modPc, nan_ok >>
appVars == << uploaded_file, sample_data, pc, run, history, open_sessions >>
pipeVars == << step, verdict, signal, fx, pred >>

\* The scaled training set of initialize_model.
X_train_scaled(sc) ==
  [r \in 1..Len(X_train) |-> ScalerTransform(sc, [f \in 1..NFeatures |-> Num(X_train[r][f])])]

\* The module-level scaler and model once initialize_model has run.
FittedScaler == ScalerFit(X_train)
FittedModel(shape) == ForestFit(shape, X_train_scaled(FittedScaler), y_train)

\* ------------------------------------------------- pipeline specification
\* One table is taken through validate_csv, process_signal,
\* extract_features and predict_class, with the model as initialize_model
\* leaves it.
InitPipeline ==
  /\ scaler = FittedScaler
  /\ model \in { FittedModel(shape) : shape \in ForestShapes }
  /\ modPc = "imported"
  /\ nan_ok \in BOOLEAN
  /\ uploaded_file \in { File("upload.csv", t) : t \in Tables }
  /\ sample_data = <<>>
  /\ pc = "idle"
  /\ run = NoRun
  /\ history = <<>>
  /\ open_sessions = 0
  /\ step = "start"
  /\ verdict = NoVerdict
  /\ signal = NoSignal
  /\ fx = NoFeatures
  /\ pred = NoResult
  /\ call = NoCall

Validate ==
  /\ step = "start"
  /\ verdict' = validate_csv(uploaded_file)
  /\ uploaded_file' = verdict'.file
  /\ step' = "validated"
  /\ UNCHANGED << call, modelVars, sample_data, pc, run, history, open_sessions,
                  signal, fx, pred >>

Process ==
  /\ step = "validated"
  /\ LET rd == read_csv(uploaded_file)
     IN /\ rd.ok
        /\ signal' = process_signal(rd.df)
        /\ uploaded_file' = rd.file
  /\ step' = "processed"
  /\ UNCHANGED << call, modelVars, sample_data, pc, run, history, open_sessions,
                  verdict, fx, pred >>

Extract ==
  /\ step = "processed"
  /\ fx' = extract_features(signal)
  /\ step' = "extracted"
  /\ UNCHANGED << call, modelVars, appVars, verdict, signal, pred >>

Predict ==
  /\ step = "extracted"
  /\ pred' = predict_class(scaler, model, nan_ok, signal)
  /\ step' = "predicted"
  /\ UNCHANGED << call, modelVars, appVars, verdict, signal, fx >>

NextPipeline == Validate \/ Process \/ Extract \/ Predict

SpecPipeline == InitPipeline /\ [][NextPipeline]_vars

\* ------------------------------------------------- waveform specification
\* The first rows of the test waveforms, repeated over the columns: a
\* constant, a square wave in both phases, silence, pulses and a ramp-like
\* pattern.
WavePatterns ==
  { <<<<"5">>>>, <<<<"1">>, <<"-", "1">>>>, <<<<"-", "1">>, <<"1">>>>, <<<<"0">>>>,
    <<<<"5">>, <<"0">>>>, <<<<"1">>, <<"1">>, <<"-", "1">>>> }

\* Tables of 5 rows whose first row is a test waveform.
Waveforms ==
  { MkTable(PatternRow(p, c), [i \in 1..c |-> <<"1">>], MinRows) :
      p \in WavePatterns, c \in 1..MaxWaveCols }

\* The pipeline of the previous section, run on the test waveforms.
InitWaveforms ==
  /\ scaler = FittedScaler
  /\ model \in { FittedModel(shape) : shape \in ForestShapes }
  /\ modPc = "imported"
  /\ nan_ok \in BOOLEAN
  /\ uploaded_file \in { File("upload.csv", t) : t \in Waveforms }
  /\ sample_data = <<>>
  /\ pc = "idle"
  /\ run = NoRun
  /\ history = <<>>
  /\ open_sessions = 0
  /\ step = "start"
  /\ verdict = NoVerdict
  /\ signal = NoSignal
  /\ fx = NoFeatures
  /\ pred = NoResult
  /\ call = NoCall

SpecWaveforms == InitWaveforms /\ [][NextPipeline]_vars

\* ------------------------------------------------------ app specification
\* The script running without waiting for the import of model.py to end.
ImportedOrNot == TRUE

\* from model import predict_class: the script runs once model.py has been
\* executed to its end.
Imported == modPc = "imported"

SAMPLE_DATA_PATH == "test_micro_doppler_signals.csv"

NoDisplay(file, is_file) ==
  [file |-> file, validated |-> is_file, is_valid |-> FALSE, error |-> "",
   signals |-> 0, amplitude |-> <<>>, displayed |-> NoResult]

\* process_and_display_signal from "Perform classification" on.
DisplayResult(file, is_file, sig, res) ==
  IF ~res.ok
    \* except Exception as e: st.error(f"An error occurred: {str(e)}")
    THEN [NoDisplay(file, is_file) EXCEPT !.is_valid = is_file, !.error = res.err,
                                          !.signals = 1, !.amplitude = sig.amplitude]
    ELSE [NoDisplay(file, is_file) EXCEPT !.is_valid = is_file, !.signals = 1,
                                          !.amplitude = sig.amplitude,
                                          !.displayed = res]

\* process_and_display_signal from "Process the signal" on.
DisplaySignal(file, is_file, sig, sc, m, nok) ==
  DisplayResult(file, is_file, sig, predict_class(sc, m, nok, sig))

\* process_and_display_signal from the pd.read_csv of either branch on.
DisplayTable(rd, is_file, sc, m, nok) ==
  IF ~rd.ok
    \* except Exception as e: st.error(f"An error occurred: {str(e)}")
    THEN [NoDisplay(rd.file, is_file) EXCEPT !.is_valid = is_file, !.error = rd.err]
    ELSE DisplaySignal(rd.file, is_file, process_signal(rd.df), sc, m, nok)

\* The is_file branch after validate_csv.
DisplayValidated(v, sc, m, nok) ==
  IF ~v.is_valid
    \* st.error(f"Invalid file: {error_msg}"); return
    THEN [NoDisplay(v.file, TRUE) EXCEPT !.error = v.error_msg]
    ELSE DisplayTable(read_csv(v.file), TRUE, sc, m, nok)

\* process_and_display_signal(data_source, is_file): what it leaves of the
\* file object, what it validated, produced and displayed.
process_and_display_signal(data_source, is_file, sc, m, nok) ==
  IF is_file THEN DisplayValidated(validate_csv(data_source), sc, m, nok)
  ELSE DisplayTable(read_csv(data_source), FALSE, sc, m, nok)

\* The second pass classifying the first row as read, not normalized.
RecomputeRaw(df, sc, m, nok) ==
  predict_class(sc, m, nok, [time |-> <<>>, amplitude |-> Coerce(df)[1]])

\* The second pass of the script over the same source: process_signal and
\* predict_class on the table just read.
Recompute(df, sc, m, nok) == predict_class(sc, m, nok, process_signal(df))

\* What process_and_display_signal did, noted in the record of the run.
Shown(r, d) ==
  [r EXCEPT !.validated = d.validated, !.is_valid = d.is_valid,
            !.error = d.error, !.signals = d.signals,
            !.amplitude = d.amplitude, !.displayed = d.displayed]

Outcome(r, store, open) == [run |-> r, history |-> store, open |-> open]

\* if save_classification_result(...): st.success(...) else: st.warning(...)
Saved(r, res, sv, db) ==
  Outcome([r EXCEPT !.signals = @ + 1, !.recomputed = res, !.save_called = TRUE,
                    !.save_ret = sv.ret, !.save_raised = sv.raised, !.db = db],
          sv.store, sv.open)

\* The statements after result, confidence = predict_class(signal_data).
PersistResult(r, store, open, filename, is_sample_data, res, db) ==
  IF ~res.ok
    \* except Exception as e: st.error(...)
    THEN Outcome([r EXCEPT !.error = res.err, !.signals = @ + 1], store, open)
    ELSE Saved(r, res,
               save_classification_result(store, open, filename, is_sample_data,
                                          res.label, res.confidence, db),
               db)

\* The statements after df = pd.read_csv(..., header=None).
PersistTable(r, store, open, filename, is_sample_data, rd, sc, m, nok, db) ==
  IF ~rd.ok
    \* except Exception as e: st.error(...)
    THEN Outcome([r EXCEPT !.error = rd.err], store, open)
    ELSE PersistResult(r, store, open, filename, is_sample_data,
                       Recompute(rd.df, sc, m, nok), db)

Init ==
  /\ scaler = UnfittedScaler
  /\ model = UnfittedModel
  /\ modPc = "created"
  /\ nan_ok \in BOOLEAN
  /\ uploaded_file = NoFile
  /\ sample_data \in Samples
  /\ pc = "idle"
  /\ run = NoRun
  /\ history = <<>>
  /\ open_sessions = 0
  /\ step = "start"
  /\ verdict = NoVerdict
  /\ signal = NoSignal
  /\ fx = NoFeatures
  /\ pred = NoResult
  /\ call = NoCall

\* initialize_model: X_train_scaled = scaler.fit_transform(X_train)
FitScaler ==
  /\ modPc = "created"
  /\ scaler' = ScalerFit(X_train)
  /\ modPc' = "scaled"
  /\ UNCHANGED << call, model, nan_ok, appVars, pipeVars >>

\* initialize_model: model.fit(X_train_scaled, y_train)
FitForest ==
  /\ modPc = "scaled"
  /\ \E shape \in ForestShapes :
       model' = ForestFit(shape, X_train_scaled(scaler), y_train)
  /\ modPc' = "trained"
  /\ UNCHANGED << call, scaler, nan_ok, appVars, pipeVars >>

\* The rest of model.py is executed and the import returns.
FinishImport ==
  /\ modPc = "trained"
  /\ modPc' = "imported"
  /\ UNCHANGED << call, scaler, model, nan_ok, appVars, pipeVars >>

\* The user drops a file on the uploader and the script reruns.
UploadFile ==
  /\ Imported
  /\ pc = "idle"
  /\ Len(history) < MaxHistory
  /\ \E t \in Uploads :
       /\ uploaded_file' = File("upload.csv", t)
       /\ run' = [NoRun EXCEPT !.kind = "upload", !.rows = NRows(t),
                               !.before = history]
  /\ pc' = "upload_display"
  /\ UNCHANGED << call, modelVars, sample_data, history, open_sessions, pipeVars >>

\* process_and_display_signal(uploaded_file, is_file=True)
UploadDisplay ==
  /\ Imported
  /\ pc = "upload_display"
  /\ uploaded_file' =
       process_and_display_signal(uploaded_file, TRUE, scaler, model, nan_ok).file
  /\ run' = Shown(run, process_and_display_signal(uploaded_file, TRUE, scaler,
                                                   model, nan_ok))
  /\ pc' = "upload_persist"
  /\ UNCHANGED << call, modelVars, sample_data, history, open_sessions, pipeVars >>

Persisted(o) ==
  /\ run' = o.run
  /\ history' = o.history
  /\ open_sessions' = o.open

\* The statements after the call: read the file again, recompute, save.
UploadPersist ==
  /\ Imported
  /\ pc = "upload_persist"
  /\ \E db \in DbOutcomes :
       Persisted(PersistTable(run, history, open_sessions, uploaded_file.name,
                              FALSE, read_csv(uploaded_file), scaler, model,
                              nan_ok, db))
  /\ uploaded_file' = NoFile
  /\ pc' = "idle"
  /\ UNCHANGED << call, modelVars, sample_data, pipeVars >>

\* The user presses "Load Sample Data" and the script reruns.
SampleClick ==
  /\ Imported
  /\ pc = "idle"
  /\ Len(history) < MaxHistory
  /\ run' = [NoRun EXCEPT !.kind = "sample", !.rows = NRows(sample_data),
                          !.before = history]
  /\ pc' = "sample_display"
  /\ UNCHANGED << call, modelVars, uploaded_file, sample_data, history, open_sessions,
                  pipeVars >>

\* process_and_display_signal(SAMPLE_DATA_PATH, is_file=False)
SampleDisplay ==
  /\ Imported
  /\ pc = "sample_display"
  /\ run' = Shown(run, process_and_display_signal(File(SAMPLE_DATA_PATH, sample_data),
                                                   FALSE, scaler, model, nan_ok))
  /\ pc' = "sample_persist"
  /\ UNCHANGED << call, modelVars, uploaded_file, sample_data, history, open_sessions,
                  pipeVars >>

\* The statements after the call: read the sample file again, recompute, save.
SamplePersist ==
  /\ Imported
  /\ pc = "sample_persist"
  /\ \E db \in DbOutcomes :
       Persisted(PersistTable(run, history, open_sessions, "Sample Data", TRUE,
                              read_csv(File(SAMPLE_DATA_PATH, sample_data)),
                              scaler, model, nan_ok, db))
  /\ pc' = "idle"
  /\ UNCHANGED << call, modelVars, uploaded_file, sample_data, pipeVars >>

Next ==
  \/ FitScaler
  \/ FitForest
  \/ FinishImport
  \/ UploadFile
  \/ UploadDisplay
  \/ UploadPersist
  \/ SampleClick
  \/ SampleDisplay
  \/ SamplePersist

Spec == Init /\ [][Next]_vars

\* ------------------------------------------------- database specification
\* The functions of database.py called in any order on one store.
\* The rows callers save: an upload classified as a drone, the sample data
\* classified as a bird.
SavedRows ==
  { ClassificationResult("upload.csv", FALSE, "drone", Num(80 * Scale)),
    ClassificationResult("Sample Data", TRUE, "bird", Num(60 * Scale)) }

\* The limits get_recent_classification_results is called with: 1, and the
\* default 10.
Limits == { 1, 10 }

InitDatabase ==
  /\ scaler = UnfittedScaler
  /\ model = UnfittedModel
  /\ modPc = "created"
  /\ nan_ok = FALSE
  /\ uploaded_file = NoFile
  /\ sample_data = <<>>
  /\ pc = "idle"
  /\ run = NoRun
  /\ history = <<>>
  /\ open_sessions = 0
  /\ step = "start"
  /\ verdict = NoVerdict
  /\ signal = NoSignal
  /\ fx = NoFeatures
  /\ pred = NoResult
  /\ call = NoCall

\* The record of a call of save_classification_result or
\* clear_classification_history.
Wrote(fn, row, db, before, w) ==
  [NoCall EXCEPT !.fn = fn, !.row = row, !.db = db, !.returned = ~w.raised,
                 !.ret = w.ret, !.before = before]

\* The record of a call of a query function.
Queried(fn, limit, outcomes, before, q) ==
  [NoCall EXCEPT !.fn = fn, !.limit = limit, !.outcomes = outcomes,
                 !.returned = q.done, !.rows = q.ret, !.attempts = q.attempt,
                 !.sleeps = q.sleeps, !.peak = q.peak, !.before = before]

Written(fn, row, db, w) ==
  /\ history' = w.store
  /\ open_sessions' = w.open
  /\ call' = Wrote(fn, row, db, history, w)

Answered(fn, limit, outcomes, q) ==
  /\ history' = history
  /\ open_sessions' = q.open
  /\ call' = Queried(fn, limit, outcomes, history, q)

SaveCall ==
  /\ Len(history) < MaxRecords
  /\ \E row \in SavedRows, db \in DbOutcomes :
       Written("save", row, db,
               save_classification_result(history, open_sessions, row.filename,
                                          row.is_sample_data = 1, row.classification,
                                          row.confidence, db))
  /\ UNCHANGED << modelVars, uploaded_file, sample_data, pc, run, pipeVars >>

GetAllCall ==
  /\ \E outcomes \in [1..max_retries -> QueryOutcomes] :
       Answered("get_all", 0, outcomes,
                get_all_classification_results(history, open_sessions, outcomes))
  /\ UNCHANGED << modelVars, uploaded_file, sample_data, pc, run, pipeVars >>

GetRecentCall ==
  /\ \E limit \in Limits, outcomes \in [1..max_retries -> QueryOutcomes] :
       Answered("get_recent", limit, outcomes,
                get_recent_classification_results(history, open_sessions, limit,
                                                  outcomes))
  /\ UNCHANGED << modelVars, uploaded_file, sample_data, pc, run, pipeVars >>

ClearCall ==
  /\ \E db \in ClearOutcomes :
       Written("clear", <<>>, db,
               clear_classification_history(history, open_sessions, db))
  /\ UNCHANGED << modelVars, uploaded_file, sample_data, pc, run, pipeVars >>

NextDatabase == SaveCall \/ GetAllCall \/ GetRecentCall \/ ClearCall

SpecDatabase == InitDatabase /\ [][NextDatabase]_vars

\* ------------------------------------------------------------------ claims
\* The row the run hands to save_classification_result.
RunRecord ==
  ClassificationResult(IF run.kind = "sample" THEN "Sample Data" ELSE "upload.csv",
                       run.kind = "sample", run.recomputed.label,
                       run.recomputed.confidence)

\* C1: an upload that validate_csv rejects persists nothing: the save is not
\* called and the history store is as it was before the run.
C1_RejectedUploadNotPersisted ==
  (run.kind = "upload" /\ run.validated /\ ~run.is_valid)
    => (~run.save_called /\ history = run.before)

\* C2: an upload whose classification was displayed reaches the save and,
\* when the database accepts the write, adds exactly one record.
C2_DisplayedUploadPersisted ==
  (pc = "idle" /\ run.kind = "upload" /\ run.displayed.ok)
    => /\ run.save_called
       /\ run.db = "ok" => history = Append(run.before, RunRecord)

\* C3: a table of fewer than 5 rows yields no canonical signal and no
\* classification, on the upload path and on the sample path.
C3_FewRowsNoSignal ==
  (run.kind \in {"upload", "sample"} /\ run.rows < MinRows)
    => (run.signals = 0 /\ ~run.displayed.ok /\ ~run.recomputed.ok)

InRange(a) == ~IsNaN(a) /\ -Scale <= a.v /\ a.v <= Scale

\* C4: the amplitude process_signal returns for a table that passed
\* validation holds no NaN and lies in [-1, 1].
C4_AmplitudeInRange ==
  (step \in {"processed", "extracted", "predicted"} /\ verdict.is_valid)
    => \A i \in 1..Len(signal.amplitude) : InRange(signal.amplitude[i])

\* C5: extract_features returns 7 features for every canonical signal of a
\* table that passed validation, whatever its number of columns.
C5_SevenFeatures ==
  (/\ step \in {"extracted", "predicted"}
   /\ verdict.is_valid
   /\ \A i \in 1..Len(signal.amplitude) : InRange(signal.amplitude[i]))
    => (fx.ok /\ Len(fx.features) = NFeatures)

AllZero(amplitude) ==
  \A i \in 1..Len(amplitude) : ~IsNaN(amplitude[i]) /\ amplitude[i].v = 0

\* C6: for an all-zero signal no NaN reaches the feature vector, the scaled
\* feature vector or the confidence.
C6_AllZeroNoNaN ==
  (step = "predicted" /\ verdict.is_valid /\ fx.ok /\ AllZero(signal.amplitude))
    => /\ \A f \in 1..NFeatures : ~IsNaN(fx.features[f])
       /\ \A f \in 1..NFeatures : ~IsNaN(ScalerTransform(scaler, fx.features)[f])
       /\ pred.ok => ~IsNaN(pred.confidence)

\* The text of an integer, as a CSV field holds it.
Digit(d) == << "0", "1", "2", "3", "4", "5", "6", "7", "8", "9" >>[d + 1]
Numeral(n) == IF n < 0 THEN << "-", Digit(-n) >> ELSE << Digit(n) >>
IsNumeral(cell) == \E n \in -9..9 : cell = Numeral(n)

\* The cells of a table that are not the text of a number.
TextCells(t) ==
  Cardinality({ rc \in (1..NRows(t)) \X (1..NCols(t)) : ~IsNumeral(t[rc[1]][rc[2]]) })

\* C7: a table of at least 5 rows is rejected exactly when more than half of
\* its cells are not numbers; exactly half is accepted.
C7_RejectsAboveHalf ==
  (step # "start" /\ NRows(uploaded_file.content) >= MinRows)
    => (verdict.is_valid <=>
          ~(2 * TextCells(uploaded_file.content) > Size(uploaded_file.content)))

C7_Witness ==
  /\ step = "validated"
  /\ NRows(uploaded_file.content) >= MinRows
  /\ 2 * TextCells(uploaded_file.content) = Size(uploaded_file.content)
  /\ verdict.is_valid

\* A script step that calls predict_class.
Predicts == UploadDisplay \/ UploadPersist \/ SampleDisplay \/ SamplePersist

\* C8: the scaler and the model are fitted once, before any step that calls
\* predict_class runs, and no step changes them once they are fitted.
C8_FittedOnceBeforePredict ==
  [][ /\ Predicts => (scaler.fitted /\ model.fitted /\ modPc = "imported")
      /\ scaler.fitted => scaler' = scaler
      /\ model.fitted => model' = model
      /\ modPc = "imported" => modPc' = modPc ]_vars

C8_Witness ==
  /\ modPc = "imported"
  /\ scaler = FittedScaler
  /\ model.fitted
  /\ run.displayed.ok
  /\ run.recomputed.ok

C10_SaveNeverRaises ==
  run.save_called
    => /\ ~run.save_raised
       /\ run.save_ret <=> run.db = "ok"
       /\ run.save_ret => history = Append(run.before, RunRecord)
       /\ ~run.save_ret => history = run.before
       /\ open_sessions = 0

C10_Witness ==
  /\ run.save_called
  /\ ~run.save_ret
  /\ history = run.before
  /\ open_sessions = 0

\* The first row 5,5,5,5,5,5 of the constant-row scenario.
ConstantRow == [i \in 1..6 |-> <<"5">>]

NoNaN(s) == \A i \in 1..Len(s) : ~IsNaN(s[i])

\* C11 as stated: for a table whose first row is 5,5,5,5,5,5 the normalized
\* amplitude is all zeros, std_amplitude is 0 and neither the amplitude nor
\* the features hold a NaN.
C11_ConstantRowAllZeros ==
  (step \in {"extracted", "predicted"} /\ uploaded_file.content[1] = ConstantRow)
    => /\ \A i \in 1..Len(signal.amplitude) : signal.amplitude[i] = Num(0)
       /\ fx.ok /\ fx.features[2] = Num(0)
       /\ NoNaN(signal.amplitude) /\ NoNaN(fx.features)

\* C11, amended: for a table whose first row is 5,5,5,5,5,5 the normalized
\* amplitude is all ones (5 divided by the peak 5), std_amplitude is 0 and
\* neither the amplitude nor the features hold a NaN.
C11_ConstantRowAllOnes ==
  (step \in {"extracted", "predicted"} /\ uploaded_file.content[1] = ConstantRow)
    => /\ Len(signal.amplitude) = Len(ConstantRow)
       /\ \A i \in 1..Len(signal.amplitude) : signal.amplitude[i] = Num(Scale)
       /\ fx.ok /\ fx.features[2] = Num(0)
       /\ NoNaN(signal.amplitude) /\ NoNaN(fx.features)

C11_Witness ==
  /\ step = "extracted"
  /\ uploaded_file.content[1] = ConstantRow
  /\ verdict.is_valid
  /\ fx.ok
  /\ fx.features[2] = Num(0)

\* The amplitude row 1,-1,1,-1,1,-1,1,-1 of the square-wave scenario.
SquareWave == [i \in 1..8 |-> Num(IF i % 2 = 1 THEN Scale ELSE -Scale)]

\* C12 as stated: for the square wave 1,-1,1,-1,1,-1,1,-1 the
\* zero_crossing_rate extract_features returns is approximately 1.0 (within
\* a tenth of it).
C12_SquareWaveRateNearOne ==
  (step \in {"extracted", "predicted"} /\ signal.amplitude = SquareWave)
    => /\ fx.ok
       /\ ~IsNaN(fx.features[5])
       /\ 10 * Abs(fx.features[5].v - Scale) <= Scale

\* C12, amended: for the square wave 1,-1,1,-1,1,-1,1,-1 the
\* zero_crossing_rate extract_features returns is 0.75: the 7 first
\* differences alternate in sign, which makes 6 sign changes, divided by
\* the signal length 8.
C12_SquareWaveRate ==
  (step \in {"extracted", "predicted"} /\ signal.amplitude = SquareWave)
    => /\ fx.ok
       /\ fx.features[5] = Num(Quot(6 * Scale, Len(SquareWave)))

C12_Witness ==
  /\ step = "extracted"
  /\ signal.amplitude = SquareWave
  /\ fx.ok
  /\ fx.features[5] = Num(Quot(6 * Scale, Len(SquareWave)))

\* The tables that share the first row and the number of columns of t: the
\* first row alone, and the first row above 3 or 4 copies of another row.
SameFirstRow(t) ==
  { << t[1] >> } \cup
  { MkTable(t[1], o, k) : o \in OtherRows(NCols(t)), k \in {MinRows - 1, MinRows} }

\* C13: the time and the amplitude process_signal returns depend on the
\* first row only: every table with the same number of columns C and the
\* same first row gives the same time and amplitude, time is 0..C-1 and both
\* have length C.  Stated of the state process_signal leaves; the later
\* steps do not touch the signal.
C13_SignalOfFirstRowOnly ==
  (step = "processed")
    => /\ Len(signal.time) = NCols(uploaded_file.content)
       /\ Len(signal.amplitude) = NCols(uploaded_file.content)
       /\ \A i \in 1..Len(signal.time) : signal.time[i] = i - 1
       /\ \A t2 \in SameFirstRow(uploaded_file.content) :
            /\ process_signal(t2).time = signal.time
            /\ process_signal(t2).amplitude = signal.amplitude

C13_Witness ==
  /\ step = "processed"
  /\ NRows(uploaded_file.content) = MinRows
  /\ uploaded_file.content[2] # uploaded_file.content[1]
  /\ NCols(uploaded_file.content) = MaxCols
  /\ NoNaN(signal.amplitude)
  /\ signal.amplitude # Coerce(uploaded_file.content)[1]

\* The records of s are the first records of t, with the values they had.
IsPrefix(s, t) == Len(s) <= Len(t) /\ SubSeq(t, 1, Len(s)) = s

\* C14: over any sequence of calls of save_classification_result,
\* get_all_classification_results, get_recent_classification_results and
\* clear_classification_history, every stored record keeps its values and
\* its place; records leave the store only in a clear that returns True,
\* which leaves the store empty; a clear that returns False and the two
\* queries leave the store as it was; a save adds its row at most.
C14_RecordsKeptUntilCleared ==
  [][ /\ IsPrefix(history, history')
         \/ (call'.fn = "clear" /\ call'.ret /\ history' = <<>>)
      /\ (call'.fn = "clear" /\ call'.ret) => history' = <<>>
      /\ (call'.fn = "clear" /\ ~call'.ret) => history' = history
      /\ call'.fn \in {"get_all", "get_recent"} => history' = history
      /\ call'.fn = "save" =>
            history' = (IF call'.ret THEN Append(history, call'.row) ELSE history)
    ]_vars

C14_Witness ==
  /\ call.fn = "clear"
  /\ call.db = "CommitError"
  /\ ~call.ret
  /\ Len(history) = MaxRecords
  /\ history = call.before

\* The rows a query function answers with when the query succeeds.
RowsAsked ==
  IF call.fn = "get_all" THEN Reverse(call.before)
  ELSE Take(Reverse(call.before), call.limit)

\* C15: a call of get_all_classification_results or
\* get_recent_classification_results returns after 1 to 3 attempts without
\* raising: every attempt before the last one met an OperationalError; the
\* last one either succeeded, and the call returns its rows, or met an
\* OperationalError on attempt 3 or another exception, and the call returns
\* []; no attempt follows a success; never more than the one session of the
\* running attempt is open, and none is open after the return.
C15_QueriesReturnWithinThreeAttempts ==
  call.fn \in {"get_all", "get_recent"}
    => /\ call.returned
       /\ call.attempts \in 1..3
       /\ \A i \in 1..(call.attempts - 1) : call.outcomes[i] = "OperationalError"
       /\ call.outcomes[call.attempts] = "OperationalError" => call.attempts = 3
       /\ call.rows = (IF call.outcomes[call.attempts] = "ok" THEN RowsAsked ELSE <<>>)
       /\ call.peak = 1
       /\ open_sessions = 0

C15_Witness ==
  /\ call.fn = "get_recent"
  /\ call.outcomes = << "OperationalError", "OperationalError", "ok" >>
  /\ call.attempts = 3
  /\ call.limit = 1
  /\ Len(history) = MaxRecords
  /\ call.rows = << history[Len(history)] >>

====
